---- MODULE Spec2Model ----
(***************************************************************************)
(* Model of the Remez exchange code of 12_Parks-McClellan-Filter-Design:   *)
(* the extended interpolation solver (solve, and its weighted twin inside  *)
(* remez_fit2), the error-extrema locator (find_error_extrema) and the two *)
(* exchange drivers (remez_fit, remez_fit2).                               *)
(*                                                                         *)
(* Numbers.  Locations are exact rationals with the common denominator     *)
(* Scale, so a location is the integer  Scale * x.  Error values are       *)
(* integers in units of the driver's tolerance 1e-3 (Tol = 1 unit).        *)
(* Floating-point rounding is not modelled.  Inside the drivers the fitted *)
(* polynomial is opaque: the values p(t) it takes on the sampling grid are *)
(* drawn from small sets, so the drivers are checked for every list of     *)
(* extrema the locator can hand them, not only for those of actual fits.   *)
(***************************************************************************)
EXTENDS Integers, Sequences, FiniteSets, TLC

\* ------------------------------------------------------------------ bounds
MaxOrder == 3
MaxIter == 2
\* the longest abscissa list handed to the solver on its own
MaxPts == 4
\* the number of samples per region when the locator is checked on its own
GridLen == 4
\* the longest extrema list handed to the Select step on its own
MaxCands == 6

\* ------------------------------------------------------- program constants
MinOrder == 3
NumSamples == 100
Tol == 1

\* ------------------------------------------------------------ input sets
\* region edges A, B in tenths, 0 < A < B < 1
ABPairs == { <<4, 6>>, <<8, 9>> }
Orders == 2..MaxOrder
Iters == 0..MaxIter
Weights == { 2 }
\* interior sample indices (0-based, within 1..NumSamples-2) at which the
\* sampled error of the opaque polynomial may turn
IxChoices == { 50 }
\* sampled error values and solved error magnitudes, in units of 1e-3 (an
\* e above the tolerance, so that the filter of the Select step bites)
ErrVals == { -1, 0, 1 }
EVals == { 2 }
\* abscissas, passband edges and weights handed to the solver on its own
XVals == 0..3
\* values of the polynomial on the grid when the locator is checked on its own
PVals == 0..2
SolveEdges == { 1 }
SolveWeights == { 2, 3 }
\* degrees at which the sampling density of the locator is looked at
ProbeOrders == 3..49
\* two callers of the drivers at once, and the round counts they ask for
Callers == { 1, 2 }
PairIters == 1..MaxIter
\* the Select step on its own: signed errors of the extrema, solved error
\* magnitudes, degrees, the passband edge (the extrema sit at 1, 2, 3, ..)
\* and passband weights
SelVals == { -1, 0, 1, 2 }
SelEVals == { 1, 2, 3 }
SelOrders == { 2, 3 }
SelEdges == { 2 }
SelWeights == { 1, 2 }

\* ------------------------------------------------------------- arithmetic
RECURSIVE Gcd(_, _)
Gcd(a, b) == IF b = 0 THEN a ELSE Gcd(b, a % b)

RECURSIVE LcmTo(_)
LcmTo(k) == IF k <= 1 THEN 1 ELSE LET l == LcmTo(k - 1) IN (l * k) \div Gcd(l, k)

\* common denominator of every location the drivers compute
Scale == 10 * (NumSamples - 1) * LcmTo(MaxOrder + 2) * (GridLen - 1)

Abs(v) == IF v < 0 THEN -v ELSE v

Sign(v) == IF v > 0 THEN 1 ELSE IF v < 0 THEN -1 ELSE 0

\* pow(-1, i) for a 0-based row index i
PowMinus1(i) == IF i % 2 = 0 THEN 1 ELSE -1

\* ------------------------------------------------------------ the solver
\* Exact rational arithmetic: a matrix is a sequence of rows of integers,
\* and a solution is a vector of numerators over one positive denominator.
RECURSIVE Pow(_, _)
Pow(b, k) == IF k = 0 THEN 1 ELSE b * Pow(b, k - 1)

\* np.vander(x, increasing=True): row i is x[i]^0 .. x[i]^(N-1), N = len(x)
Vander(xs) == [i \in 1..Len(xs) |-> [j \in 1..Len(xs) |-> Pow(xs[i], j - 1)]]

\* m with column c replaced by the vector col
SetCol(m, c, col) ==
    [i \in 1..Len(m) |-> [j \in 1..Len(m) |-> IF j = c THEN col[i] ELSE m[i][j]]]

\* m without row r and column c
Minor(m, r, c) ==
    [i \in 1..(Len(m) - 1) |->
        [j \in 1..(Len(m) - 1) |->
            m[IF i < r THEN i ELSE i + 1][IF j < c THEN j ELSE j + 1]]]

RECURSIVE SumTo(_, _)
SumTo(f, k) == IF k = 0 THEN 0 ELSE f[k] + SumTo(f, k - 1)

\* the determinant, expanded along the first row down to 2 x 2
RECURSIVE Det(_)
Det(m) ==
    IF Len(m) = 0 THEN 1
    ELSE IF Len(m) = 1 THEN m[1][1]
    ELSE IF Len(m) = 2 THEN m[1][1] * m[2][2] - m[1][2] * m[2][1]
    ELSE SumTo([j \in 1..Len(m) |->
                   PowMinus1(j - 1) * m[1][j] * Det(Minor(m, 1, j))], Len(m))

\* a solver that does not notice a singular matrix
LinSolve_NoSingularCheck(m, rhs) ==
    [kind |-> "ok",
     num  |-> [j \in 1..Len(m) |-> Det(SetCol(m, j, rhs))],
     den  |-> Det(m)]

\* np.linalg.solve(V, y): LinAlgError for a singular V, otherwise the
\* solution, by Cramer's rule, as numerators over the denominator den > 0
LinSolve(m, rhs) ==
    LET d == Det(m)
        s == Sign(d)
    IN  IF d = 0
        THEN [kind |-> "LinAlgError", num |-> <<>>, den |-> 1]
        ELSE [kind |-> "ok",
              num  |-> [j \in 1..Len(m) |-> s * Det(SetCol(m, j, rhs))],
              den  |-> s * d]

\* V[:,-1] = pow(-1, np.arange(0, len(x)))
SignColumn(k) == [i \in 1..k |-> PowMinus1(i - 1)]

\* a slip in the slice: the first unknown is dropped instead of the last
Coeffs_DropFirst(v) == SubSeq(v, 2, Len(v))

\* v[-2::-1] read back in increasing powers: every unknown but the last
Coeffs(v) == SubSeq(v, 1, Len(v) - 1)

NoResult == [kind |-> "none", p |-> <<>>, eps |-> 0, e |-> 0, den |-> 1,
             lastcol |-> <<>>]

\* solve(x, y) for a non-empty x: p = poly1d(v[-2::-1]), e = np.abs(v[-1]);
\* lastcol is the last column of V as fractions <<numerator, denominator>>
solve(xs, ys) ==
    LET col == SignColumn(Len(xs))
        V   == SetCol(Vander(xs), Len(xs), col)
        v   == LinSolve(V, ys)
        lc  == [i \in 1..Len(xs) |-> <<col[i], 1>>]
    IN  IF v.kind = "ok"
        THEN [kind |-> "ok", p |-> Coeffs(v.num), eps |-> v.num[Len(xs)],
              e |-> Abs(v.num[Len(xs)]), den |-> v.den, lastcol |-> lc]
        ELSE [kind |-> "LinAlgError", p |-> <<>>, eps |-> 0, e |-> 0, den |-> 1,
              lastcol |-> lc]

\* the weight read the other way round: Aweight in the passband
weigh_Inverted(xv, a, w) == IF xv <= a THEN <<w, 1>> ELSE <<1, 1>>

\* weigh(x) of remez_fit2, as the fraction <<numerator, denominator>>:
\* 1.0/Aweight if x <= A else 1
weigh(xv, a, w) == IF xv <= a THEN <<1, w>> ELSE <<1, 1>>

\* V[:,-1] = pow(-1, np.arange(0, len(x))) * weigh(x), as fractions
WeighedColumn(xs, a, w) ==
    [i \in 1..Len(xs) |->
        <<PowMinus1(i - 1) * weigh(xs[i], a, w)[1], weigh(xs[i], a, w)[2]>>]

\* the weighted solve inside remez_fit2.  Every equation is multiplied by
\* Aweight, which leaves the solution unchanged and the matrix integral.
solve2(xs, ys, a, w) ==
    LET lc  == WeighedColumn(xs, a, w)
        col == [i \in 1..Len(xs) |-> lc[i][1] * (w \div lc[i][2])]
        Vd  == Vander(xs)
        Vw  == [i \in 1..Len(xs) |-> [j \in 1..Len(xs) |-> w * Vd[i][j]]]
        V   == SetCol(Vw, Len(xs), col)
        v   == LinSolve(V, [i \in 1..Len(xs) |-> w * ys[i]])
    IN  IF v.kind = "ok"
        THEN [kind |-> "ok", p |-> Coeffs(v.num), eps |-> v.num[Len(xs)],
              e |-> Abs(v.num[Len(xs)]), den |-> v.den, lastcol |-> lc]
        ELSE [kind |-> "LinAlgError", p |-> <<>>, eps |-> 0, e |-> 0, den |-> 1,
              lastcol |-> lc]

\* ------------------------------------------------------------ solver state
VARIABLES
    sx, sy,      \* the abscissas and ordinates handed to the solver
    sA, sw,      \* the passband edge and weight (sw = 1: solve, else remez_fit2)
    sres         \* what the solver gave back

svars == <<sx, sy, sA, sw, sres>>

SolverIdle == sx = <<>> /\ sy = <<>> /\ sA = 0 /\ sw = 1 /\ sres = NoResult

SolveInit ==
    /\ \E k \in 2..MaxPts : sx \in [1..k -> XVals] /\ sy \in [1..k -> {0, 1}]
    /\ sA = 0 /\ sw = 1 /\ sres = NoResult


\* ------------------------------------------------------------ driver state
VARIABLES
    fn,          \* the driver that was called: "none", "remez_fit", "remez_fit2"
    A, B,        \* region edges, as locations (Scale * edge)
    Aweight,     \* passband weight of remez_fit2 (1 when fn is remez_fit)
    order,       \* the degree M asked for
    iterations,  \* the number of rounds asked for
    pc,          \* "idle", "loop", "extract", "select", "returned", "raised"
    it,          \* how many values the outer range(0, iterations) has handed out
    n,           \* the Python variable n, shared by the outer and the inner loop
    x, y,        \* the candidate point set and its target ordinates
    p,           \* the local variable p: bound or not, and what it was solved on
    e,           \* the error magnitude of the current Solve step
    loc, err,    \* the extrema list handed from the Extract step to the Select
                 \* step of a round (dead once selected from, and then empty)
    data,        \* the data dictionary
    error,       \* the exception that ended the call, "none" otherwise
    trace        \* the steps run so far, in order

dvars == <<fn, A, B, Aweight, order, iterations, pc, it, n, x, y, p, e,
           loc, err, data, error, trace>>

Unbound == [bound |-> FALSE, ncoef |-> 0, xs |-> <<>>, ys |-> <<>>]

\* a location given in tenths
Edge(t) == t * (Scale \div 10)

\* ------------------------------------------------------- driver: seeding
\* ptsA = int(pts * A / (A-B+1)); if ptsA < 2: ptsA = 2
PtsA(a, b, ord) ==
    LET pts  == ord + 2
        ptsA == (pts * a) \div (a - b + Scale)
    IN  IF ptsA < 2 THEN 2 ELSE ptsA

PtsB(a, b, ord) == (ord + 2) - PtsA(a, b, ord)

\* the passband points spaced up to the edge A
SeedA_ToEdge(a, k) == [i \in 1..k |-> i * (a \div k)]

\* np.arange(1, ptsA+1) * (A / (ptsA+1))
SeedA(a, k) == [i \in 1..k |-> i * (a \div (k + 1))]

\* B + np.arange(1, ptsB+1) * ((1-B) / (ptsB+1))
SeedB(b, k) == [j \in 1..k |-> b + j * ((Scale - b) \div (k + 1))]

SeedX(a, b, ord) == SeedA(a, PtsA(a, b, ord)) \o SeedB(b, PtsB(a, b, ord))

\* np.concatenate((np.ones(ptsA), np.zeros(ptsB)))
SeedY(a, b, ord) ==
    [i \in 1..PtsA(a, b, ord) |-> 1] \o [j \in 1..PtsB(a, b, ord) |-> 0]

\* the edge A itself tagged as stopband
Tag_Strict(xs, a) == [i \in 1..Len(xs) |-> IF xs[i] < a THEN 1 ELSE 0]

\* y = [1 if c <= A else 0 for c in x]
Tag(xs, a) == [i \in 1..Len(xs) |-> IF xs[i] <= a THEN 1 ELSE 0]

\* ---------------------------------------------------- driver: the solver
\* two equal abscissas in rows of the same parity make two rows of the
\* system matrix equal, and np.linalg.solve raises LinAlgError
EqualRows(xs) ==
    \E i, j \in 1..Len(xs) : i < j /\ (j - i) % 2 = 0 /\ xs[i] = xs[j]

\* p = np.poly1d(v[-2::-1]): one coefficient per solved unknown but the last
\* (for a single point the slice is empty and poly1d gives the polynomial 0,
\* of one coefficient)
Poly(xs, ys) ==
    [bound |-> TRUE, ncoef |-> IF Len(xs) = 1 THEN 1 ELSE Len(xs) - 1,
     xs |-> xs, ys |-> ys]

\* the passband error scaled up by the weight
AerrOf_Times(ee, w) == <<ee * w, 1>>

\* data['Aerr'] = e / Aweight, as the fraction <<numerator, denominator>>
AerrOf(ee, w) == <<ee, w>>

\* ---------------------------------------------------- driver: the locator
\* np.linspace(lo, hi, num)[k], k 0-based
Linspace(lo, hi, num, k) == lo + k * ((hi - lo) \div (num - 1))

\* the ascending sequence of the members of a finite set of integers
RECURSIVE SortedSeq(_)
SortedSeq(S) ==
    IF S = {} THEN <<>>
    ELSE LET m == CHOOSE v \in S : \A w \in S : v <= w
         IN  <<m>> \o SortedSeq(S \ {m})

\* np.hstack((t[0], t[ix], t[-1])) for one region sampled at num points;
\* ix is a set of 0-based sample indices
RegionLoc(lo, hi, num, ix) ==
    LET s == SortedSeq(ix)
    IN  <<Linspace(lo, hi, num, 0)>>
        \o [k \in 1..Len(s) |-> Linspace(lo, hi, num, s[k])]
        \o <<Linspace(lo, hi, num, num - 1)>>

\* np.hstack((y[0], y[ix], y[-1])) for the sampled errors ys of one region
RegionErr(ys, ix) ==
    LET s == SortedSeq(ix)
    IN  <<ys[1]>> \o [k \in 1..Len(s) |-> ys[s[k] + 1]] \o <<ys[Len(ys)]>>

\* np.diff(a)
Diff(a) == [k \in 1..(Len(a) - 1) |-> a[k + 1] - a[k]]

\* np.sign(a)
SignSeq(a) == [k \in 1..Len(a) |-> Sign(a[k])]

\* a.nonzero()[0]: the 0-based indices of the non-zero entries
NonZero(a) == {k - 1 : k \in {j \in 1..Len(a) : a[j] # 0}}

\* the + 1 forgotten
ExtremaIx_NoShift(ys) == NonZero(Diff(SignSeq(Diff(ys))))

\* np.diff(np.sign(np.diff(y))).nonzero()[0] + 1, as a set of 0-based indices
ExtremaIx(ys) == {k + 1 : k \in NonZero(Diff(SignSeq(Diff(ys))))}

\* the error taken as p(t) - val
ErrorValues_Negated(val, pv) == [k \in 1..Len(pv) |-> pv[k] - val]

\* y = val - p(t), for the values pv of the polynomial on the grid
ErrorValues(val, pv) == [k \in 1..Len(pv) |-> val - pv[k]]

\* the two regions visited in the other order
find_error_extrema_StopbandFirst(pA, pB, a, b, num) ==
    LET yA == [k \in 1..Len(pA) |-> 1 - pA[k]]
        yB == [k \in 1..Len(pB) |-> 0 - pB[k]]
    IN  [loc |-> RegionLoc(b, Scale, num, ExtremaIx(yB))
                 \o RegionLoc(0, a, num, ExtremaIx(yA)),
         err |-> RegionErr(yB, ExtremaIx(yB)) \o RegionErr(yA, ExtremaIx(yA))]

\* find_error_extrema(p, A, B) for a polynomial that takes the values pA on
\* the grid of [0,A] and pB on the grid of [B,1] (num points each; the code
\* samples NumSamples points)
find_error_extrema(pA, pB, a, b, num) ==
    LET yA == ErrorValues(1, pA)
        yB == ErrorValues(0, pB)
    IN  [loc |-> RegionLoc(0, a, num, ExtremaIx(yA))
                 \o RegionLoc(b, Scale, num, ExtremaIx(yB)),
         err |-> RegionErr(yA, ExtremaIx(yA)) \o RegionErr(yB, ExtremaIx(yB))]

\* the number of samples one call of find_error_extrema evaluates: two
\* regions of np.linspace(rng[0], rng[1], 100), whatever the degree of p
SamplesEvaluated == 2 * NumSamples

\* find_error_extrema(p, A, B): region [0,A] first, then [B,1]; ixA and ixB
\* are the index sets np.diff(np.sign(np.diff(y))).nonzero()[0] + 1 of the
\* two regions (members of 1..NumSamples-2)
ExtremaLoc(a, b, ixA, ixB) ==
    RegionLoc(0, a, NumSamples, ixA) \o RegionLoc(b, Scale, NumSamples, ixB)

\* ------------------------------------------------------ driver: selecting
\* remez_fit: c = {'loc': loc[n], 'sign': np.sign(err[n]), 'err_mag': np.abs(err[n])}
Cands(ls, vs) ==
    [k \in 1..Len(ls) |-> [loc |-> ls[k], sign |-> Sign(vs[k]), err_mag |-> Abs(vs[k])]]

\* the weight left out of the magnitude
ErrMag2_Raw(l, v, a, w) == Abs(v)

\* weigh(x) of remez_fit2 is 1/Aweight for x <= A and 1 otherwise, so
\* np.abs(err[n]) / weigh(loc[n]) is |err| * Aweight in the passband
ErrMag2(l, v, a, w) == IF l <= a THEN Abs(v) * w ELSE Abs(v)

\* the sign taken of the weighted magnitude, not of the error
Cands2_SignOfMagnitude(ls, vs, a, w) ==
    [k \in 1..Len(ls) |->
        [loc |-> ls[k], sign |-> Sign(ErrMag2(ls[k], vs[k], a, w)),
         err_mag |-> ErrMag2(ls[k], vs[k], a, w)]]

\* remez_fit2: the candidates with the weighted magnitude
Cands2(ls, vs, a, w) ==
    [k \in 1..Len(ls) |->
        [loc |-> ls[k], sign |-> Sign(vs[k]), err_mag |-> ErrMag2(ls[k], vs[k], a, w)]]

\* the filter taken strictly above e
PassesFilter_AboveE(c, ee) == c.err_mag >= ee

\* if c['err_mag'] >= e - 1e-3
PassesFilter(c, ee) == c.err_mag >= ee - Tol

\* an equal candidate replaces the kept one too
Replaces_OrEqual(last, c) == last.err_mag <= c.err_mag

\* elif alt[-1]['err_mag'] < c['err_mag']
Replaces(last, c) == last.err_mag < c.err_mag

\* every candidate that passes the filter is appended
WalkStep_NoSignTest(alt, c, ee) ==
    IF PassesFilter(c, ee) THEN Append(alt, c) ELSE alt

\* the body of the inner for loop for one candidate c
WalkStep(alt, c, ee) ==
    IF PassesFilter(c, ee)
    THEN IF alt = <<>> \/ alt[Len(alt)].sign # c.sign
         THEN Append(alt, c)
         ELSE IF Replaces(alt[Len(alt)], c)
              THEN Append(SubSeq(alt, 1, Len(alt) - 1), c)
              ELSE alt
    ELSE alt

\* the inner for loop over the candidates cs, from index k (1-based) on
RECURSIVE Walk(_, _, _, _)
Walk(cs, ee, k, alt) ==
    IF k > Len(cs) THEN alt
    ELSE Walk(cs, ee, k + 1, WalkStep(alt, cs[k], ee))

\* the end with the larger magnitude dropped
DropsLast_Smaller(alt) == alt[1].err_mag < alt[Len(alt)].err_mag

\* if alt[0]['err_mag'] > alt[-1]['err_mag']: alt.pop(-1), else alt.pop(0)
DropsLast(alt) == alt[1].err_mag > alt[Len(alt)].err_mag

\* while len(alt) > order + 2: drop the end with the smaller magnitude
RECURSIVE Trim(_, _)
Trim(alt, ord) ==
    IF Len(alt) > ord + 2
    THEN IF DropsLast(alt)
         THEN Trim(SubSeq(alt, 1, Len(alt) - 1), ord)
         ELSE Trim(Tail(alt), ord)
    ELSE alt

\* the locations taken from the last entry to the first
Locs_Reversed(alt) == [i \in 1..Len(alt) |-> alt[Len(alt) + 1 - i].loc]

\* x = [c['loc'] for c in alt]
Locs(alt) == [i \in 1..Len(alt) |-> alt[i].loc]

\* ----------------------------------------------------------- locator state
VARIABLES
    epA, epB,    \* the values of the polynomial on the grids of [0,A] and [B,1]
    eA, eB,      \* the region edges handed to the locator
    eres         \* what the locator gave back

evars == <<epA, epB, eA, eB, eres>>

NoExtrema == [done |-> FALSE, loc |-> <<>>, err |-> <<>>]

LocatorIdle == epA = <<>> /\ epB = <<>> /\ eA = 0 /\ eB = 0 /\ eres = NoExtrema

LocatorInit ==
    /\ epA \in [1..GridLen -> PVals] /\ epB \in [1..GridLen -> PVals]
    /\ \E ab \in ABPairs : eA = Edge(ab[1]) /\ eB = Edge(ab[2])
    /\ eres = NoExtrema

\* --------------------------------------------------------- selection state
VARIABLES
    qloc, qerr,  \* the extrema list handed to the Select step
    qe,          \* the solved error magnitude e
    qorder,      \* the degree
    qA, qAweight,\* the passband edge and weight
    qres         \* what the Select step made of it

qvars == <<qloc, qerr, qe, qorder, qA, qAweight, qres>>

NoSelection ==
    [done |-> FALSE, fn |-> "none", kept |-> <<>>, alt |-> <<>>,
     x |-> <<>>, y |-> <<>>]

SelectIdle ==
    /\ qloc = <<>> /\ qerr = <<>> /\ qe = 0 /\ qorder = 0
    /\ qA = 0 /\ qAweight = 1 /\ qres = NoSelection

SelectInit ==
    /\ \E k \in 4..MaxCands :
         /\ qloc = [i \in 1..k |-> i]
         /\ qerr \in [1..k -> SelVals]
    /\ qe \in SelEVals /\ qorder \in SelOrders /\ qA \in SelEdges
    /\ qAweight = 1 /\ qres = NoSelection

\* ------------------------------------------------------ concurrent callers
\* Every name the drivers assign is a local variable of one invocation, so
\* the state of two invocations is one record of locals each.  What the
\* opaque polynomial of an invocation shows the locator is fixed when the
\* call is made: the solved e, the interior turning samples of the two
\* regions and the signed errors of the extrema list.
VARIABLES
    calls        \* the locals of every caller's invocation

Scripts ==
    { [e |-> 1, ixA |-> {50}, ixB |-> {},   errs |-> <<1, -1, 1, -1, 1>>],
      [e |-> 2, ixA |-> {},   ixB |-> {},   errs |-> <<1, 0, -1, 0>>],
      [e |-> 2, ixA |-> {50}, ixB |-> {50}, errs |-> <<1, -1, 1, -1, 1, -1>>],
      [e |-> 2, ixA |-> {},   ixB |-> {},   errs |-> <<0, 0, 0, 0>>] }

CallInputs ==
    [fn : {"remez_fit", "remez_fit2"}, ab : ABPairs, Aweight : Weights,
     order : {MinOrder}, iterations : PairIters, script : Scripts]

NotCalled == [pc |-> "idle"]

PairInit == calls = [c \in Callers |-> NotCalled]

\* the call up to the for loop
CallStep(i) ==
    LET a == Edge(i.ab[1])
        b == Edge(i.ab[2])
        bad == i.fn = "remez_fit" /\ i.order < MinOrder
    IN  [inp |-> i, fn |-> i.fn, A |-> a, B |-> b,
         Aweight |-> IF i.fn = "remez_fit2" THEN i.Aweight ELSE 1,
         order |-> i.order, iterations |-> i.iterations,
         pc |-> IF bad THEN "raised" ELSE "loop",
         error |-> IF bad THEN "ValueError" ELSE "none",
         it |-> 0, n |-> -1,
         x |-> IF bad THEN <<>> ELSE SeedX(a, b, i.order),
         y |-> IF bad THEN <<>> ELSE SeedY(a, b, i.order),
         p |-> Unbound, e |-> 0, loc |-> <<>>, err |-> <<>>, data |-> <<>>]

\* the loop head and the Solve step
SolveStep(r) ==
    LET head == [r EXCEPT !.n = r.it, !.it = r.it + 1]
        prev == [prev_x |-> r.x, prev_y |-> r.y]
    IN  IF r.x = <<>>
        THEN [head EXCEPT !.pc = "raised", !.error = "IndexError",
                          !.data = prev @@ r.data]
        ELSE IF EqualRows(r.x)
        THEN [head EXCEPT !.pc = "raised", !.error = "LinAlgError",
                          !.data = prev @@ r.data]
        ELSE [head EXCEPT !.pc = "extract",
                          !.p = Poly(r.x, r.y), !.e = r.inp.script.e,
                          !.data = (IF r.fn = "remez_fit2"
                                    THEN [prev_x |-> r.x, prev_y |-> r.y,
                                          Aerr |-> AerrOf(r.inp.script.e, r.Aweight),
                                          Berr |-> r.inp.script.e]
                                    ELSE [prev_x |-> r.x, prev_y |-> r.y,
                                          err |-> r.inp.script.e]) @@ r.data]

\* loc, err = find_error_extrema(p, A, B)
ExtractStep(r) ==
    [r EXCEPT !.pc = "select",
              !.loc = ExtremaLoc(r.A, r.B, r.inp.script.ixA, r.inp.script.ixB),
              !.err = r.inp.script.errs]

\* the walk, the trimming and the new candidate set
SelectStep(r) ==
    LET cs  == IF r.fn = "remez_fit2"
               THEN Cands2(r.loc, r.err, r.A, r.Aweight)
               ELSE Cands(r.loc, r.err)
        alt == Trim(Walk(cs, r.e, 1, <<>>), r.order)
    IN  [r EXCEPT !.pc = "loop",
                  !.n = IF Len(r.loc) > 0 THEN Len(r.loc) - 1 ELSE r.n,
                  !.x = Locs(alt), !.y = Tag(Locs(alt), r.A),
                  !.data = [new_x |-> Locs(alt)] @@ r.data]

\* return p, data
ReturnStep(r) ==
    IF r.p.bound
    THEN [r EXCEPT !.pc = "returned"]
    ELSE [r EXCEPT !.pc = "raised", !.error = "UnboundLocalError"]

\* ------------------------------------------------------------ driver: Init
\* -------------------------------------------------------------- MSE_fit
\* the degrees and the edge pairs (in tenths) MSE_fit is called with
MseOrders == 2..(MaxOrder + 1)

MseEdges == {ab \in (1..9) \X (1..9) : ab[1] < ab[2]}

\* ptsA = int(pts * A / (A+(1-B))); if ptsA < 2: ptsA = 2
MsePtsA(a, b, ord) ==
    LET pts  == ord + 1
        ptsA == (pts * a) \div (a + (Scale - b))
    IN  IF ptsA < 2 THEN 2 ELSE ptsA

\* ptsB = pts - ptsA
MsePtsB(a, b, ord) == (ord + 1) - MsePtsA(a, b, ord)

\* np.arange(0, ptsA) * (A / (ptsA-1))
MseGridA(a, k) == [i \in 1..k |-> (i - 1) * (a \div (k - 1))]

\* B + np.arange(0, ptsB) * ((1-B) / (ptsB-1))
MseGridB(b, k) ==
    IF k <= 0 THEN <<>>
    ELSE [j \in 1..k |-> b + (j - 1) * ((Scale - b) \div (k - 1))]

NoFit == [kind |-> "none", x |-> <<>>, y |-> <<>>, ncoef |-> 0]

\* MSE_fit(A, B, order): the degree check, the split of the order + 1 points,
\* the two spacings (a Python float divided by the int 0 raises
\* ZeroDivisionError) and the interpolator of order + 1 coefficients
MSE_fit(a, b, ord) ==
    IF ord < MinOrder THEN [NoFit EXCEPT !.kind = "ValueError"]
    ELSE LET ptsA == MsePtsA(a, b, ord)
             ptsB == MsePtsB(a, b, ord)
         IN  IF ptsA - 1 = 0 \/ ptsB - 1 = 0
             THEN [NoFit EXCEPT !.kind = "ZeroDivisionError"]
             ELSE [kind |-> "ok",
                   x |-> MseGridA(a, ptsA) \o MseGridB(b, ptsB),
                   y |-> [i \in 1..ptsA |-> 1] \o [j \in 1..ptsB |-> 0],
                   ncoef |-> ord + 1]

VARIABLES
    mA, mB,      \* the region edges MSE_fit is called with
    morder,      \* the degree
    mres         \* what MSE_fit gave back

mvars == <<mA, mB, morder, mres>>

MseIdle == mA = 0 /\ mB = 0 /\ morder = 0 /\ mres = NoFit

MseInit ==
    /\ \E ab \in MseEdges : mA = Edge(ab[1]) /\ mB = Edge(ab[2])
    /\ morder \in MseOrders
    /\ mres = NoFit

DriverInit ==
    /\ fn = "none" /\ A = 0 /\ B = 0 /\ Aweight = 1 /\ order = 0 /\ iterations = 0
    /\ pc = "idle" /\ it = 0 /\ n = -1
    /\ x = <<>> /\ y = <<>> /\ p = Unbound /\ e = 0
    /\ loc = <<>> /\ err = <<>>
    /\ data = <<>>
    /\ error = "none" /\ trace = <<>>

\* ------------------------------------------------------- remez_fit actions
\* remez_fit without its degree check
RemezFit_Call_NoCheck ==
    /\ pc = "idle"
    /\ \E ab \in ABPairs, ord \in Orders, iters \in Iters :
         /\ fn' = "remez_fit"
         /\ A' = Edge(ab[1]) /\ B' = Edge(ab[2])
         /\ order' = ord /\ iterations' = iters
         /\ x' = SeedX(Edge(ab[1]), Edge(ab[2]), ord)
         /\ y' = SeedY(Edge(ab[1]), Edge(ab[2]), ord)
         /\ trace' = <<"Seed">>
         /\ pc' = "loop"
         /\ UNCHANGED error
    /\ UNCHANGED <<Aweight, it, n, p, e, loc, err, data>>
    /\ UNCHANGED <<svars, evars, qvars, calls, mvars>>

\* the call up to the for loop: the degree check and the seeding
RemezFit_Call ==
    /\ pc = "idle"
    /\ \E ab \in ABPairs, ord \in Orders, iters \in Iters :
         /\ fn' = "remez_fit"
         /\ A' = Edge(ab[1]) /\ B' = Edge(ab[2])
         /\ order' = ord /\ iterations' = iters
         /\ IF ord < MinOrder
            THEN /\ error' = "ValueError" /\ pc' = "raised"
                 /\ UNCHANGED <<x, y, trace>>
            ELSE /\ x' = SeedX(Edge(ab[1]), Edge(ab[2]), ord)
                 /\ y' = SeedY(Edge(ab[1]), Edge(ab[2]), ord)
                 /\ trace' = <<"Seed">>
                 /\ pc' = "loop"
                 /\ UNCHANGED error
    /\ UNCHANGED <<Aweight, it, n, p, e, loc, err, data>>
    /\ UNCHANGED <<svars, evars, qvars, calls, mvars>>

\* a Solve step that swallows the solver's exception and goes on to the
\* next pass of the loop
RemezFit_Solve_Swallow ==
    /\ fn = "remez_fit" /\ pc = "loop" /\ it < iterations
    /\ n' = it /\ it' = it + 1
    /\ trace' = Append(trace, "Solve")
    /\ IF x = <<>> \/ EqualRows(x)
       THEN /\ error' = (IF x = <<>> THEN "IndexError" ELSE "LinAlgError")
            /\ pc' = "loop"
            /\ data' = [prev_x |-> x, prev_y |-> y] @@ data
            /\ UNCHANGED <<p, e>>
       ELSE \E ee \in EVals :
            /\ p' = Poly(x, y) /\ e' = ee
            /\ data' = [prev_x |-> x, prev_y |-> y, err |-> ee] @@ data
            /\ pc' = "extract"
            /\ UNCHANGED error
    /\ UNCHANGED <<fn, A, B, Aweight, order, iterations, x, y, loc, err>>
    /\ UNCHANGED <<svars, evars, qvars, calls, mvars>>

\* one pass of the loop head and the Solve step:
\* data['prev_x'] = x; data['prev_y'] = y; p, e = solve(x, y); data['err'] = e
RemezFit_Solve ==
    /\ fn = "remez_fit" /\ pc = "loop" /\ it < iterations
    /\ n' = it /\ it' = it + 1
    /\ trace' = Append(trace, "Solve")
    /\ IF x = <<>>
       THEN /\ error' = "IndexError" /\ pc' = "raised"
            /\ data' = [prev_x |-> x, prev_y |-> y] @@ data
            /\ UNCHANGED <<p, e>>
       ELSE IF EqualRows(x)
       THEN /\ error' = "LinAlgError" /\ pc' = "raised"
            /\ data' = [prev_x |-> x, prev_y |-> y] @@ data
            /\ UNCHANGED <<p, e>>
       ELSE \E ee \in EVals :
            /\ p' = Poly(x, y) /\ e' = ee
            /\ data' = [prev_x |-> x, prev_y |-> y, err |-> ee] @@ data
            /\ pc' = "extract"
            /\ UNCHANGED error
    /\ UNCHANGED <<fn, A, B, Aweight, order, iterations, x, y, loc, err>>
    /\ UNCHANGED <<svars, evars, qvars, calls, mvars>>

\* loc, err = find_error_extrema(p, A, B)
RemezFit_Extract ==
    /\ fn = "remez_fit" /\ pc = "extract"
    /\ \E ixA \in SUBSET IxChoices, ixB \in SUBSET IxChoices :
         LET ls == ExtremaLoc(A, B, ixA, ixB)
         IN  /\ loc' = ls
             /\ err' \in [1..Len(ls) -> ErrVals]
    /\ trace' = Append(trace, "Extract")
    /\ pc' = "select"
    /\ UNCHANGED <<fn, A, B, Aweight, order, iterations, it, n, x, y, p, e, data, error>>
    /\ UNCHANGED <<svars, evars, qvars, calls, mvars>>

\* the outer loop counting on with the n that the inner loop left behind
RemezFit_Select_SharedCounter ==
    /\ fn = "remez_fit" /\ pc = "select"
    /\ LET alt == Trim(Walk(Cands(loc, err), e, 1, <<>>), order)
       IN  /\ x' = Locs(alt)
           /\ y' = Tag(Locs(alt), A)
           /\ data' = [new_x |-> Locs(alt)] @@ data
    /\ n' = IF Len(loc) > 0 THEN Len(loc) - 1 ELSE n
    /\ it' = IF Len(loc) > 0 THEN Len(loc) ELSE it
    /\ trace' = Append(trace, "Select")
    /\ pc' = "loop"
    /\ loc' = <<>> /\ err' = <<>>
    /\ UNCHANGED <<fn, A, B, Aweight, order, iterations, p, e, error>>
    /\ UNCHANGED <<svars, evars, qvars, calls, mvars>>

\* the alternation walk, the trimming and the replacement of the candidate set
RemezFit_Select ==
    /\ fn = "remez_fit" /\ pc = "select"
    /\ LET alt == Trim(Walk(Cands(loc, err), e, 1, <<>>), order)
       IN  /\ x' = Locs(alt)
           /\ y' = Tag(Locs(alt), A)
           /\ data' = [new_x |-> Locs(alt)] @@ data
    /\ n' = IF Len(loc) > 0 THEN Len(loc) - 1 ELSE n
    /\ trace' = Append(trace, "Select")
    /\ pc' = "loop"
    /\ loc' = <<>> /\ err' = <<>>
    /\ UNCHANGED <<fn, A, B, Aweight, order, iterations, it, p, e, error>>
    /\ UNCHANGED <<svars, evars, qvars, calls, mvars>>

\* a return that hands back whatever p is
RemezFit_Return_Unchecked ==
    /\ fn = "remez_fit" /\ pc = "loop" /\ it >= iterations
    /\ pc' = "returned" /\ UNCHANGED error
    /\ UNCHANGED <<fn, A, B, Aweight, order, iterations, it, n, x, y, p, e,
                   loc, err, data, trace>>
    /\ UNCHANGED <<svars, evars, qvars, calls, mvars>>

\* the loop is exhausted: return p, data
RemezFit_Return ==
    /\ fn = "remez_fit" /\ pc = "loop" /\ it >= iterations
    /\ IF p.bound
       THEN pc' = "returned" /\ UNCHANGED error
       ELSE pc' = "raised" /\ error' = "UnboundLocalError"
    /\ UNCHANGED <<fn, A, B, Aweight, order, iterations, it, n, x, y, p, e,
                   loc, err, data, trace>>
    /\ UNCHANGED <<svars, evars, qvars, calls, mvars>>

\* ------------------------------------------------------ remez_fit2 actions
\* the call up to the for loop: the seeding (there is no degree check)
RemezFit2_Call ==
    /\ pc = "idle"
    /\ \E ab \in ABPairs, w \in Weights, ord \in Orders, iters \in Iters :
         /\ fn' = "remez_fit2"
         /\ A' = Edge(ab[1]) /\ B' = Edge(ab[2])
         /\ Aweight' = w
         /\ order' = ord /\ iterations' = iters
         /\ x' = SeedX(Edge(ab[1]), Edge(ab[2]), ord)
         /\ y' = SeedY(Edge(ab[1]), Edge(ab[2]), ord)
    /\ trace' = <<"Seed">>
    /\ pc' = "loop"
    /\ UNCHANGED <<it, n, p, e, loc, err, data, error>>
    /\ UNCHANGED <<svars, evars, qvars, calls, mvars>>

\* the loop head and the weighted Solve step:
\* data['Aerr'] = e / Aweight (kept as the fraction <<e, Aweight>>); data['Berr'] = e
RemezFit2_Solve ==
    /\ fn = "remez_fit2" /\ pc = "loop" /\ it < iterations
    /\ n' = it /\ it' = it + 1
    /\ trace' = Append(trace, "Solve")
    /\ IF x = <<>>
       THEN /\ error' = "IndexError" /\ pc' = "raised"
            /\ data' = [prev_x |-> x, prev_y |-> y] @@ data
            /\ UNCHANGED <<p, e>>
       ELSE IF EqualRows(x)
       THEN /\ error' = "LinAlgError" /\ pc' = "raised"
            /\ data' = [prev_x |-> x, prev_y |-> y] @@ data
            /\ UNCHANGED <<p, e>>
       ELSE \E ee \in EVals :
            /\ p' = Poly(x, y) /\ e' = ee
            /\ data' = [prev_x |-> x, prev_y |-> y,
                        Aerr |-> AerrOf(ee, Aweight), Berr |-> ee] @@ data
            /\ pc' = "extract"
            /\ UNCHANGED error
    /\ UNCHANGED <<fn, A, B, Aweight, order, iterations, x, y, loc, err>>
    /\ UNCHANGED <<svars, evars, qvars, calls, mvars>>

\* loc, err = find_error_extrema(p, A, B)
RemezFit2_Extract ==
    /\ fn = "remez_fit2" /\ pc = "extract"
    /\ \E ixA \in SUBSET IxChoices, ixB \in SUBSET IxChoices :
         LET ls == ExtremaLoc(A, B, ixA, ixB)
         IN  /\ loc' = ls
             /\ err' \in [1..Len(ls) -> ErrVals]
    /\ trace' = Append(trace, "Extract")
    /\ pc' = "select"
    /\ UNCHANGED <<fn, A, B, Aweight, order, iterations, it, n, x, y, p, e, data, error>>
    /\ UNCHANGED <<svars, evars, qvars, calls, mvars>>

\* a Select step that lets every extremum through the filter
RemezFit2_Select_NoFilter ==
    /\ fn = "remez_fit2" /\ pc = "select"
    /\ LET alt == Trim(Walk(Cands2(loc, err, A, Aweight), 0, 1, <<>>), order)
       IN  /\ x' = Locs(alt)
           /\ y' = Tag(Locs(alt), A)
           /\ data' = [new_x |-> Locs(alt)] @@ data
    /\ n' = IF Len(loc) > 0 THEN Len(loc) - 1 ELSE n
    /\ trace' = Append(trace, "Select")
    /\ pc' = "loop"
    /\ loc' = <<>> /\ err' = <<>>
    /\ UNCHANGED <<fn, A, B, Aweight, order, iterations, it, p, e, error>>
    /\ UNCHANGED <<svars, evars, qvars, calls, mvars>>

\* the weighted alternation walk, the trimming and the replacement
RemezFit2_Select ==
    /\ fn = "remez_fit2" /\ pc = "select"
    /\ LET alt == Trim(Walk(Cands2(loc, err, A, Aweight), e, 1, <<>>), order)
       IN  /\ x' = Locs(alt)
           /\ y' = Tag(Locs(alt), A)
           /\ data' = [new_x |-> Locs(alt)] @@ data
    /\ n' = IF Len(loc) > 0 THEN Len(loc) - 1 ELSE n
    /\ trace' = Append(trace, "Select")
    /\ pc' = "loop"
    /\ loc' = <<>> /\ err' = <<>>
    /\ UNCHANGED <<fn, A, B, Aweight, order, iterations, it, p, e, error>>
    /\ UNCHANGED <<svars, evars, qvars, calls, mvars>>

\* a return that solves once more, on the set just selected
RemezFit2_Return_Resolved ==
    /\ fn = "remez_fit2" /\ pc = "loop" /\ it >= iterations
    /\ IF p.bound
       THEN pc' = "returned" /\ p' = Poly(x, y) /\ UNCHANGED error
       ELSE pc' = "raised" /\ error' = "UnboundLocalError" /\ UNCHANGED p
    /\ UNCHANGED <<fn, A, B, Aweight, order, iterations, it, n, x, y, e,
                   loc, err, data, trace>>
    /\ UNCHANGED <<svars, evars, qvars, calls, mvars>>

\* the loop is exhausted: return p, data
RemezFit2_Return ==
    /\ fn = "remez_fit2" /\ pc = "loop" /\ it >= iterations
    /\ IF p.bound
       THEN pc' = "returned" /\ UNCHANGED error
       ELSE pc' = "raised" /\ error' = "UnboundLocalError"
    /\ UNCHANGED <<fn, A, B, Aweight, order, iterations, it, n, x, y, p, e,
                   loc, err, data, trace>>
    /\ UNCHANGED <<svars, evars, qvars, calls, mvars>>

DriverNext ==
    \/ RemezFit_Call \/ RemezFit_Solve \/ RemezFit_Extract
    \/ RemezFit_Select \/ RemezFit_Return
    \/ RemezFit2_Call \/ RemezFit2_Solve \/ RemezFit2_Extract
    \/ RemezFit2_Select \/ RemezFit2_Return

\* ---------------------------------------------------------- solver actions
\* p, e = solve(x, y)
Solve_Apply ==
    /\ sres.kind = "none"
    /\ sres' = solve(sx, sy)
    /\ UNCHANGED <<sx, sy, sA, sw>>
    /\ UNCHANGED <<dvars, evars, qvars, calls, mvars>>

\* the weighted solve of remez_fit2 for a passband edge and a weight
Solve2_Apply ==
    /\ sres.kind = "none"
    /\ \E a \in SolveEdges, w \in SolveWeights :
         /\ sA' = a /\ sw' = w
         /\ sres' = solve2(sx, sy, a, w)
    /\ UNCHANGED <<sx, sy>>
    /\ UNCHANGED <<dvars, evars, qvars, calls, mvars>>

SolveNext == Solve_Apply \/ Solve2_Apply

\* --------------------------------------------------------- locator actions
\* loc, err = find_error_extrema(p, A, B)
Locator_Apply ==
    /\ ~eres.done
    /\ LET r == find_error_extrema(epA, epB, eA, eB, GridLen)
       IN  eres' = [done |-> TRUE, loc |-> r.loc, err |-> r.err]
    /\ UNCHANGED <<epA, epB, eA, eB>>
    /\ UNCHANGED <<dvars, svars, qvars, calls, mvars>>

LocatorNext == Locator_Apply

\* -------------------------------------------------------- selection actions
\* the Select step of remez_fit: the walk, the trimming and the new x, y
Select_Apply ==
    /\ ~qres.done /\ qorder >= MinOrder
    /\ LET kept == Walk(Cands(qloc, qerr), qe, 1, <<>>)
           alt == Trim(kept, qorder)
       IN  qres' = [done |-> TRUE, fn |-> "remez_fit", kept |-> kept,
                    alt |-> alt, x |-> Locs(alt), y |-> Tag(Locs(alt), qA)]
    /\ UNCHANGED <<qloc, qerr, qe, qorder, qA, qAweight>>
    /\ UNCHANGED <<dvars, svars, evars, calls, mvars>>

\* the Select step of remez_fit2 for a passband weight
Select2_Apply ==
    /\ ~qres.done
    /\ \E w \in SelWeights :
         /\ qAweight' = w
         /\ LET kept == Walk(Cands2(qloc, qerr, qA, w), qe, 1, <<>>)
                alt == Trim(kept, qorder)
            IN  qres' = [done |-> TRUE, fn |-> "remez_fit2", kept |-> kept,
                         alt |-> alt, x |-> Locs(alt), y |-> Tag(Locs(alt), qA)]
    /\ UNCHANGED <<qloc, qerr, qe, qorder, qA>>
    /\ UNCHANGED <<dvars, svars, evars, calls, mvars>>

SelectNext == Select_Apply \/ Select2_Apply

\* ------------------------------------------------- concurrent-caller actions
Pair_Call(c) ==
    /\ calls[c].pc = "idle"
    /\ \E i \in CallInputs : calls' = [calls EXCEPT ![c] = CallStep(i)]
    /\ UNCHANGED <<dvars, svars, evars, qvars, mvars>>

Pair_Solve(c) ==
    /\ calls[c].pc = "loop" /\ calls[c].it < calls[c].iterations
    /\ calls' = [calls EXCEPT ![c] = SolveStep(calls[c])]
    /\ UNCHANGED <<dvars, svars, evars, qvars, mvars>>

\* an extrema list kept where every invocation reads it
Pair_Extract_SharedList(c) ==
    /\ calls[c].pc = "extract"
    /\ calls' = [k \in Callers |->
                    IF k = c THEN ExtractStep(calls[c])
                    ELSE IF calls[k].pc = "select"
                    THEN [calls[k] EXCEPT !.loc = ExtractStep(calls[c]).loc,
                                          !.err = ExtractStep(calls[c]).err]
                    ELSE calls[k]]
    /\ UNCHANGED <<dvars, svars, evars, qvars, mvars>>

Pair_Extract(c) ==
    /\ calls[c].pc = "extract"
    /\ calls' = [calls EXCEPT ![c] = ExtractStep(calls[c])]
    /\ UNCHANGED <<dvars, svars, evars, qvars, mvars>>

Pair_Select(c) ==
    /\ calls[c].pc = "select"
    /\ calls' = [calls EXCEPT ![c] = SelectStep(calls[c])]
    /\ UNCHANGED <<dvars, svars, evars, qvars, mvars>>

Pair_Return(c) ==
    /\ calls[c].pc = "loop" /\ calls[c].it >= calls[c].iterations
    /\ calls' = [calls EXCEPT ![c] = ReturnStep(calls[c])]
    /\ UNCHANGED <<dvars, svars, evars, qvars, mvars>>

PairNext ==
    \E c \in Callers :
        \/ Pair_Call(c) \/ Pair_Solve(c) \/ Pair_Extract(c)
        \/ Pair_Select(c) \/ Pair_Return(c)

\* ----------------------------------------------------------- MSE_fit action
MSE_Apply ==
    /\ mres.kind = "none"
    /\ mres' = MSE_fit(mA, mB, morder)
    /\ UNCHANGED <<mA, mB, morder>>
    /\ UNCHANGED <<dvars, svars, evars, qvars, calls>>

MseNext == MSE_Apply

\* ---------------------------------------------------------- specifications
vars == <<dvars, svars, evars, qvars, calls, mvars>>

\* the two drivers
Init == DriverInit /\ SolverIdle /\ LocatorIdle /\ SelectIdle /\ PairInit /\ MseIdle

Next == DriverNext

Spec == Init /\ [][Next]_vars

\* the solver on its own, for every short list of abscissas and ordinates
SolveSpecInit == DriverInit /\ SolveInit /\ LocatorIdle /\ SelectIdle /\ PairInit /\ MseIdle

SolveSpec == SolveSpecInit /\ [][SolveNext]_vars

\* the locator on its own, for every polynomial on a short grid
LocatorSpecInit == DriverInit /\ SolverIdle /\ LocatorInit /\ SelectIdle /\ PairInit /\ MseIdle

LocatorSpec == LocatorSpecInit /\ [][LocatorNext]_vars

\* the Select step on its own, for every short extrema list
SelectSpecInit == DriverInit /\ SolverIdle /\ LocatorIdle /\ SelectInit /\ PairInit /\ MseIdle

SelectSpec == SelectSpecInit /\ [][SelectNext]_vars

\* two invocations of the drivers, their steps interleaved in every way
PairSpecInit == DriverInit /\ SolverIdle /\ LocatorIdle /\ SelectIdle /\ PairInit /\ MseIdle

PairSpec == PairSpecInit /\ [][PairNext]_vars

\* MSE_fit on its own, for every pair of edges in tenths
MseSpecInit ==
    DriverInit /\ SolverIdle /\ LocatorIdle /\ SelectIdle /\ PairInit /\ MseInit

MseSpec == MseSpecInit /\ [][MseNext]_vars

\* ================================================================= claims
Distinct(xs) == \A i, j \in 1..Len(xs) : i # j => xs[i] # xs[j]

StrictlyIncreasing(xs) == \A i \in 1..(Len(xs) - 1) : xs[i] < xs[i + 1]

InPassband(xs, a) == {i \in 1..Len(xs) : xs[i] <= a}

Rounds == <<"Solve", "Extract", "Select">>

\* the steps of k full rounds after the seeding
RoundTrace(k) == [i \in 1..(1 + 3 * k) |-> IF i = 1 THEN "Seed" ELSE Rounds[((i - 2) % 3) + 1]]

\* C1: remez_fit called with order < 3 ends in ValueError before anything is
\* computed (no candidate set is seeded, no step runs, p stays unbound), for
\* every A, B and iterations; order = 3 is accepted.
C1_DegreeCheck ==
    fn = "remez_fit" =>
        /\ order < 3 => /\ error = "ValueError" /\ pc = "raised"
                        /\ x = <<>> /\ y = <<>> /\ trace = <<>>
                        /\ ~p.bound /\ data = <<>>
        /\ order >= 3 => error # "ValueError"

C1_Witness ==
    fn = "remez_fit" /\ order = 2 /\ iterations = 0 /\ error = "ValueError"

\* C2: remez_fit2 called with order < 3 ends in ValueError before it seeds a
\* candidate set or runs a Solve step, for every weight.
C2_WeightedDegreeCheck ==
    (fn = "remez_fit2" /\ order < 3) =>
        /\ error = "ValueError"
        /\ x = <<>>
        /\ \A i \in 1..Len(trace) : trace[i] # "Solve"

\* C3: whenever a Solve step of remez_fit is about to start, the candidate
\* set holds exactly order + 2 points and no two of them are equal.
C3_CandidateSetSize ==
    (fn = "remez_fit" /\ pc = "loop" /\ it < iterations) =>
        Len(x) = order + 2 /\ Distinct(x)

\* C4: a Select step that leaves fewer than order + 2 candidates ends the
\* call in an error: no polynomial is ever solved on, and no call returns
\* with, a candidate set smaller than order + 2.
C4_CollapseFails ==
    /\ p.bound => Len(p.xs) >= order + 2
    /\ pc = "returned" => Len(x) >= order + 2

\* C5: a call with iterations = k that does not fail runs exactly k rounds,
\* each Solve, Extract, Select in this order, and then returns; the steps
\* run so far are always a prefix of those k rounds.
C5_ExactlyKRounds ==
    fn # "none" /\ error # "ValueError" =>
        /\ Len(trace) <= 1 + 3 * iterations
        /\ trace = SubSeq(RoundTrace(iterations), 1, Len(trace))
        /\ pc = "returned" => trace = RoundTrace(iterations)
        /\ (pc = "loop" /\ it >= iterations /\ iterations >= 1)
              => trace = RoundTrace(iterations)

\* a call of two rounds has returned although the inner loop left n beyond
\* the number of rounds
C5_Witness ==
    /\ fn = "remez_fit" /\ pc = "returned" /\ iterations = 2
    /\ n >= iterations
    /\ trace = RoundTrace(2)

\* C6: the seeding puts ptsA = max(2, floor((M+2)*A/(A+1-B))) points in
\* [0,A] and (M+2) - ptsA points in [B,1], and at least 2 in each region.
C6_SeedSplit ==
    (fn # "none" /\ order >= 3 /\ pc = "loop" /\ it = 0) =>
        LET f    == ((order + 2) * A) \div (A + Scale - B)
            ptsA == IF f > 2 THEN f ELSE 2
            nA   == Cardinality(InPassband(x, A))
            nB   == Len(x) - nA
        IN  /\ nA = ptsA /\ nB = (order + 2) - ptsA
            /\ \A i \in 1..Len(x) : x[i] <= A \/ x[i] >= B
            /\ nA >= 2 /\ nB >= 2

\* ------------------------------------------------------- claims: the solver
\* sum over k of p[k] * xv^k, for the numerators p
PolyAt(pn, xv) == SumTo([k \in 1..Len(pn) |-> pn[k] * Pow(xv, k - 1)], Len(pn))

\* C7 (as stated): for distinct (increasing) abscissas, with W = 1 in solve
\* and W = 1/Aweight on the passband in the weighted solve, the outputs
\* satisfy sum p[k]*x[i]^k + (-1)^i * e / W(x[i]) = y[i] for the magnitude
\* e >= 0.
C7_IdentityWithMagnitude ==
    (sres.kind = "ok" /\ StrictlyIncreasing(sx)) =>
        /\ sres.e >= 0
        /\ \A i \in 1..Len(sx) :
             PolyAt(sres.p, sx[i])
               + PowMinus1(i - 1) * sres.e * (IF sx[i] <= sA THEN sw ELSE 1)
             = sy[i] * sres.den

\* C7 (amended): with eps the solved last unknown, e = |eps| >= 0 and
\* sum p[k]*x[i]^k + (-1)^i * eps * weigh(x[i]) = y[i] for every row i, where
\* weigh is 1 in solve, and 1/Aweight on the passband and 1 on the stopband
\* in the weighted solve (both sides multiplied by Aweight and by den).
C7_IdentityWithSignedUnknown ==
    sres.kind = "ok" =>
        /\ sres.e >= 0 /\ sres.e = Abs(sres.eps) /\ sres.den > 0
        /\ Len(sres.p) = Len(sx) - 1
        /\ \A i \in 1..Len(sx) :
             sw * PolyAt(sres.p, sx[i])
               + PowMinus1(i - 1) * sres.eps * (IF sx[i] <= sA THEN 1 ELSE sw)
             = sw * sy[i] * sres.den

C7_Witness ==
    /\ sres.kind = "ok" /\ sres.eps < 0 /\ Len(sx) >= 4
    /\ StrictlyIncreasing(sx)
    /\ sw > 1 /\ \E i \in 1..Len(sx) : sx[i] <= sA

\* C8 (as stated): in the weighted solve the last entry of row i is
\* (-1)^i / W(x_i) with W = 1/Aweight on the passband and 1 on the stopband,
\* that is (-1)^i * Aweight on a passband row.
C8_LastColumnOverW ==
    (sres.kind # "none" /\ sw > 1) =>
        \A i \in 1..Len(sx) :
            sres.lastcol[i][1] =
                PowMinus1(i - 1) * (IF sx[i] <= sA THEN sw ELSE 1) * sres.lastcol[i][2]

\* C8 (amended): in the weighted solve the last entry of row i is
\* (-1)^i * weigh(x_i): (-1)^i / Aweight on a passband row, (-1)^i on a
\* stopband row.
C8_LastColumnTimesWeigh ==
    (sres.kind # "none" /\ sw > 1) =>
        \A i \in 1..Len(sx) :
            sres.lastcol[i][1] * (IF sx[i] <= sA THEN sw ELSE 1)
                = PowMinus1(i - 1) * sres.lastcol[i][2]

C8_Witness ==
    /\ sres.kind = "ok" /\ sw > 1
    /\ \E i, j \in 1..Len(sx) : sx[i] <= sA /\ sx[j] > sA

\* C9 (as stated): the solver raises whenever two abscissas are equal,
\* whatever their positions.
C9_DuplicateAlwaysSingular ==
    (sres.kind # "none" /\ ~Distinct(sx)) => sres.kind = "LinAlgError"

\* C9 (amended): the solver raises, and returns nothing, whenever two
\* abscissas at positions of the same parity are equal.
C9_SameParityDuplicateSingular ==
    (sres.kind # "none" /\ EqualRows(sx)) =>
        sres.kind = "LinAlgError" /\ sres.p = <<>>

C9_Witness ==
    /\ sres.kind = "LinAlgError" /\ Len(sx) >= 3
    /\ sx[1] = sx[3] /\ sx[1] # sx[2]

\* ------------------------------------------------------ claims: the locator
\* the 0-based sample indices the locator reported for a region, read back
\* from the locations of its result
ReportedIx(lo, hi) ==
    {k \in 0..(GridLen - 1) :
        \E i \in 1..Len(eres.loc) :
            /\ eres.loc[i] = Linspace(lo, hi, GridLen, k)
            /\ eres.err[i] = (IF hi = eA THEN 1 - epA[k + 1] ELSE 0 - epB[k + 1])}

Interior == 1..(GridLen - 2)

\* sample k (0-based) of ys lies strictly above, or strictly below, both
\* of its neighbours
StrictExtremum(ys, k) ==
    \/ ys[k + 1] > ys[k] /\ ys[k + 1] > ys[k + 2]
    \/ ys[k + 1] < ys[k] /\ ys[k + 1] < ys[k + 2]

\* sample k (0-based) of ys is not below, or not above, both of its neighbours
WeakExtremum(ys, k) ==
    \/ ys[k + 1] >= ys[k] /\ ys[k + 1] >= ys[k + 2]
    \/ ys[k + 1] <= ys[k] /\ ys[k + 1] <= ys[k + 2]

NoEqualNeighbours(ys) == \A k \in 1..(Len(ys) - 1) : ys[k] # ys[k + 1]

Ends == {0, GridLen - 1}

\* C10 (as stated): for every sampled error sequence, equal consecutive
\* samples included, a region's report is exactly its two endpoints plus the
\* interior samples that are a local minimum or maximum (read strictly for
\* both regions, or read weakly for both regions).
C10_ExactlyLocalExtrema ==
    eres.done =>
        LET yA == ErrorValues(1, epA)
            yB == ErrorValues(0, epB)
        IN  \/ /\ ReportedIx(0, eA) = Ends \cup {k \in Interior : StrictExtremum(yA, k)}
               /\ ReportedIx(eB, Scale) = Ends \cup {k \in Interior : StrictExtremum(yB, k)}
            \/ /\ ReportedIx(0, eA) = Ends \cup {k \in Interior : WeakExtremum(yA, k)}
               /\ ReportedIx(eB, Scale) = Ends \cup {k \in Interior : WeakExtremum(yB, k)}

\* the report of one region against the samples ys of that region
RegionReportOk(rep, ys) ==
    /\ Ends \subseteq rep
    /\ \A k \in Interior : StrictExtremum(ys, k) => k \in rep
    /\ \A k \in rep \ Ends : k \in Interior /\ WeakExtremum(ys, k)
    /\ NoEqualNeighbours(ys) => rep = Ends \cup {k \in Interior : StrictExtremum(ys, k)}

\* C10 (amended): a region's report holds its two endpoints and every
\* interior sample that is a strict local minimum or maximum, and holds no
\* interior sample that is not at least a weak one; when no two consecutive
\* samples are equal it is exactly the endpoints plus the interior local
\* extrema.  The result lists nothing else.
C10_ExtremaUpToPlateaus ==
    eres.done =>
        /\ RegionReportOk(ReportedIx(0, eA), ErrorValues(1, epA))
        /\ RegionReportOk(ReportedIx(eB, Scale), ErrorValues(0, epB))
        /\ Len(eres.loc) = Cardinality(ReportedIx(0, eA))
                           + Cardinality(ReportedIx(eB, Scale))
        /\ Len(eres.err) = Len(eres.loc)

\* a report with a strict extremum in it and with a plateau end in it
C10_Witness ==
    /\ eres.done
    /\ \E k \in Interior : k \in ReportedIx(0, eA) /\ StrictExtremum(ErrorValues(1, epA), k)
    /\ \E k \in Interior : k \in ReportedIx(0, eA) /\ ~StrictExtremum(ErrorValues(1, epA), k)

\* ----------------------------------------------- claims: the locator, again
\* the sample index (0-based) of the region lo..hi that sits at location l
SampleAt(lo, hi, l) == {k \in 0..(GridLen - 1) : Linspace(lo, hi, GridLen, k) = l}

\* C11: the locator's output lists region [0,A] before region [B,1]; within
\* each region the locations are strictly increasing, the first being the
\* region's left endpoint and the last its right endpoint.
C11_OutputOrdered ==
    eres.done =>
        \E m \in 2..(Len(eres.loc) - 2) :
            /\ eres.loc[1] = 0 /\ eres.loc[m] = eA
            /\ eres.loc[m + 1] = eB /\ eres.loc[Len(eres.loc)] = Scale
            /\ StrictlyIncreasing(SubSeq(eres.loc, 1, m))
            /\ StrictlyIncreasing(SubSeq(eres.loc, m + 1, Len(eres.loc)))

\* a report with an interior extremum in each of the two regions
C11_Witness ==
    /\ eres.done
    /\ \E i \in 1..Len(eres.loc) : 0 < eres.loc[i] /\ eres.loc[i] < eA
    /\ \E i \in 1..Len(eres.loc) : eB < eres.loc[i] /\ eres.loc[i] < Scale

\* C12 (as stated): the value reported at a passband location carries the
\* factor W(x) = 1/weight_A of the weighted fit, i.e. weight_A times the
\* reported value is D(x) - P(x) there.
C12_WeightedErrorReported ==
    eres.done =>
        \A w \in Weights : \A i \in 1..Len(eres.loc) :
            eres.loc[i] <= eA =>
                \E k \in SampleAt(0, eA, eres.loc[i]) : w * eres.err[i] = 1 - epA[k + 1]

\* C12 (amended): the locator takes no weight; the value reported at a
\* location is the plain signed error D(x) - P(x) there, D = 1 on [0,A] and
\* D = 0 on [B,1], in the weighted fit as in the unweighted one.
C12_PlainErrorReported ==
    eres.done =>
        /\ Len(eres.err) = Len(eres.loc)
        /\ \A i \in 1..Len(eres.loc) :
              IF eres.loc[i] <= eA
              THEN \E k \in SampleAt(0, eA, eres.loc[i]) : eres.err[i] = 1 - epA[k + 1]
              ELSE \E k \in SampleAt(eB, Scale, eres.loc[i]) : eres.err[i] = 0 - epB[k + 1]

\* a report with a non-zero error at a passband and at a stopband location
C12_Witness ==
    /\ eres.done
    /\ \E i \in 1..Len(eres.loc) : eres.loc[i] <= eA /\ eres.err[i] # 0
    /\ \E i \in 1..Len(eres.loc) : eres.loc[i] >= eB /\ eres.err[i] # 0

\* C13: the number of samples the locator evaluates in a call of degree M
\* is at least 4 (M + 2), and, being the same for every degree, is at least
\* 4 (M' + 2) for every larger degree M' the driver accepts as well.
C13_SamplingFloor ==
    (pc = "select" /\ order >= MinOrder) =>
        \A M \in ProbeOrders : M >= order => SamplesEvaluated >= 4 * (M + 2)

\* ------------------------------------------------ claims: the Select step
\* |err| / W(x) of extremum i: |err| * weight_A for x <= A, |err| for x >= B
WMag(i) == Abs(qerr[i]) * (IF qloc[i] <= qA THEN qAweight ELSE 1)

\* the extrema that pass the filter against e minus the tolerance
Passing == {i \in 1..Len(qloc) : WMag(i) >= qe - Tol}

\* extrema i <= j of the passing set P have nothing of another sign
\* between them in P
SameRun(P, i, j) ==
    \A k \in P : (i <= k /\ k <= j) => Sign(qerr[k]) = Sign(qerr[i])

\* the first of the largest of every run of one sign among the passing
RunHeads ==
    LET P == Passing
    IN  {i \in P :
            /\ \A j \in P : (j < i /\ SameRun(P, j, i)) => WMag(j) < WMag(i)
            /\ \A j \in P : (i < j /\ SameRun(P, i, j)) => WMag(j) <= WMag(i)}

\* the ends of the window left of w[lo..hi] when it is cut down to ord + 2
\* entries, the end of the smaller magnitude going first
RECURSIVE Window(_, _, _, _)
Window(w, lo, hi, ord) ==
    IF hi - lo + 1 > ord + 2
    THEN IF WMag(w[lo]) > WMag(w[hi])
         THEN Window(w, lo, hi - 1, ord)
         ELSE Window(w, lo + 1, hi, ord)
    ELSE <<lo, hi>>

\* the selection by weighted magnitudes, as extremum indices
Selected ==
    LET w  == SortedSeq(RunHeads)
        lh == Window(w, 1, Len(w), qorder)
    IN  SubSeq(w, lh[1], lh[2])

\* C14: in the weighted Select step the filter against e - tolerance, the
\* same-sign replacement and the end trimming all compare |err| / W(x),
\* that is |err| * weight_A for x <= A and |err| for x >= B.
C14_WeightedComparisons ==
    (qres.done /\ qres.fn = "remez_fit2") =>
        LET sel == Selected
        IN  qres.alt = [j \in 1..Len(sel) |->
                           [loc |-> qloc[sel[j]], sign |-> Sign(qerr[sel[j]]),
                            err_mag |-> WMag(sel[j])]]

\* a weighted selection that the raw magnitudes would have made otherwise,
\* after a replacement and a trimming
C14_Witness ==
    /\ qres.done /\ qres.fn = "remez_fit2" /\ qAweight > 1
    /\ Locs(qres.alt) # Locs(Trim(Walk(Cands(qloc, qerr), qe, 1, <<>>), qorder))
    /\ LET heads == RunHeads
       IN  Cardinality(Passing) > Cardinality(heads) /\ Cardinality(heads) > qorder + 2

\* ------------------------------------------- claims: the weighted driver
\* C15: after a weighted fit with iterations >= 1 the reported passband
\* error times the weight is the reported stopband error; both are reported
\* from the first Solve step on.
C15_AerrTimesWeightIsBerr ==
    fn = "remez_fit2" =>
        /\ (pc = "returned" /\ iterations >= 1) => "Aerr" \in DOMAIN data
        /\ "Aerr" \in DOMAIN data =>
              /\ "Berr" \in DOMAIN data
              /\ data.Aerr[2] > 0
              /\ data.Aerr[1] * Aweight = data.Berr * data.Aerr[2]
              /\ data.Berr = e

\* a weighted fit of two rounds that returned
C15_Witness ==
    /\ fn = "remez_fit2" /\ pc = "returned" /\ iterations >= 2
    /\ Aweight > 1 /\ data.Berr = 2

\* C16: with weight_A = 1 one round of the weighted driver is one round of
\* the unweighted one: from the same extrema list, solved error and degree
\* (>= 3) the Select step leaves the same candidates x, y; the system solved
\* on them has the last column (-1)^i of the unweighted solver, hence the
\* same polynomial and e; and Aerr = e / 1 = Berr = err.
C16_UnitWeightIsUnweighted ==
    (qres.done /\ qres.fn = "remez_fit2" /\ qAweight = 1 /\ qorder >= MinOrder) =>
        LET alt == Trim(Walk(Cands(qloc, qerr), qe, 1, <<>>), qorder)
            col == WeighedColumn(qres.x, qA, qAweight)
        IN  /\ qres.alt = alt
            /\ qres.x = Locs(alt) /\ qres.y = Tag(Locs(alt), qA)
            /\ \A i \in 1..Len(qres.x) :
                  col[i][1] = SignColumn(Len(qres.x))[i] * col[i][2]
            /\ AerrOf(qe, qAweight)[1] = qe * AerrOf(qe, qAweight)[2]

\* a unit-weight selection that was trimmed to order + 2 candidates
C16_Witness ==
    /\ qres.done /\ qres.fn = "remez_fit2" /\ qAweight = 1 /\ qorder >= MinOrder
    /\ Len(qres.alt) = qorder + 2
    /\ Cardinality(RunHeads) > qorder + 2

\* ---------------------------------------------- claims: the drivers, again
\* C17: a call with order = M >= 3 and iterations >= 1 that returns, returns
\* a polynomial of exactly M + 1 coefficients.
C17_ReturnedDegree ==
    (pc = "returned" /\ order >= MinOrder /\ iterations >= 1) =>
        p.bound /\ p.ncoef = order + 1

SolverErrors == {"LinAlgError", "IndexError"}

\* the number of Solve steps among the steps run so far
SolveSteps == Cardinality({i \in 1..Len(trace) : trace[i] = "Solve"})

\* C18: when the solver fails in iteration j the call ends there with the
\* solver's exception: the failing Solve step is the last step run and was
\* run once, iterations j+1.. never start, and the call does not return
\* (the polynomial and data of the iterations before j stay inside it).
C18_SolverFailureEndsCall ==
    error \in SolverErrors =>
        /\ pc = "raised"
        /\ trace[Len(trace)] = "Solve"
        /\ SolveSteps = it /\ 1 <= it /\ it <= iterations
        /\ trace = SubSeq(RoundTrace(iterations), 1, 1 + 3 * (it - 1) + 1)

\* the solver failed in the second iteration, after a full first one
C18_Witness ==
    /\ error \in SolverErrors /\ it = 2 /\ iterations >= 2
    /\ p.bound /\ "new_x" \in DOMAIN data

\* the magnitude the driver in use compares for extremum k of the list
DriverMag(k) ==
    IF fn = "remez_fit2" THEN ErrMag2(loc[k], err[k], A, Aweight) ELSE Abs(err[k])

\* the extrema whose magnitude is within the tolerance of e, and those
\* whose magnitude is not below e minus the tolerance
WithinTol == {k \in 1..Len(loc) : Abs(DriverMag(k) - e) <= Tol}

AboveFloor == {k \in 1..Len(loc) : DriverMag(k) >= e - Tol}

\* neighbours within the set S of extrema have opposite, non-zero signs
Alternating(S) ==
    \A i, j \in S :
        (i < j /\ ~\E k \in S : i < k /\ k < j)
            => (Sign(err[i]) # 0 /\ Sign(err[i]) = -Sign(err[j]))

\* the sign of the error at the location l of the extrema list
SignAt(l) == Sign(err[CHOOSE k \in 1..Len(loc) : loc[k] = l])

StepOf(r) ==
    IF r.pc = "extract" THEN ExtractStep(r)
    ELSE IF r.pc = "select" THEN SelectStep(r)
    ELSE IF r.it < r.iterations THEN SolveStep(r)
    ELSE ReturnStep(r)

\* where an invocation ends when it runs from r on with nothing in between
RECURSIVE RunAlone(_)
RunAlone(r) == IF r.pc \in {"returned", "raised"} THEN r ELSE RunAlone(StepOf(r))

\* C19: with the steps of two invocations interleaved in any way, each
\* invocation is at every moment where its run alone from its own inputs
\* passes, so it ends with what it returns when run alone; and the Solve
\* step leaves the x and y it was given as they were.
C19_NoSharedState ==
    \A c \in Callers :
        calls[c].pc # "idle" =>
            /\ RunAlone(calls[c]) = RunAlone(CallStep(calls[c].inp))
            /\ calls[c].pc = "extract" =>
                  /\ calls[c].x = calls[c].data.prev_x
                  /\ calls[c].y = calls[c].data.prev_y
                  /\ calls[c].p.xs = calls[c].x /\ calls[c].p.ys = calls[c].y

\* two invocations with different inputs have both returned, with
\* different results
C19_Witness ==
    /\ calls[1].pc = "returned" /\ calls[2].pc = "returned"
    /\ calls[1].inp # calls[2].inp
    /\ calls[1].x # calls[2].x /\ calls[1].iterations = 2

\* ------------------------------------------------- the alternation walk
\* the index in the extrema list of the extremum at location l
IxOf(l) == CHOOSE i \in 1..Len(qloc) : qloc[i] = l

\* the indices of the entries of a list of candidates
IxSeq(cs) == [k \in 1..Len(cs) |-> IxOf(cs[k].loc)]

\* the members of P that are in the same run as i
RunOf(P, i) ==
    {j \in P : IF j <= i THEN SameRun(P, j, i) ELSE SameRun(P, i, j)}

\* the list ks of indices is what a walk may keep of the filtered extrema:
\* filtered extrema in their original order, carried with their sign and
\* magnitude, one of every maximal same-signed run and the largest of it
KeepsRunMaxima(ks, cs) ==
    LET P == Passing
    IN  /\ \A k \in 1..Len(ks) :
             /\ ks[k] \in P
             /\ cs[k].sign = Sign(qerr[ks[k]])
             /\ cs[k].err_mag = WMag(ks[k])
        /\ \A k \in 1..(Len(ks) - 1) : ks[k] < ks[k + 1]
        /\ \A i \in P :
             LET R == RunOf(P, i)
                 H == {k \in 1..Len(ks) : ks[k] \in R}
             IN  /\ Cardinality(H) = 1
                 /\ \A k \in H : \A j \in R : WMag(j) <= WMag(ks[k])

RECURSIVE ReachedByDroppingSmallerEnds(_, _, _)
ReachedByDroppingSmallerEnds(K, lo, hi) ==
    \/ lo = 1 /\ hi = Len(K)
    \/ /\ lo > 1
       /\ K[lo - 1].err_mag <= K[hi].err_mag
       /\ ReachedByDroppingSmallerEnds(K, lo - 1, hi)
    \/ /\ hi < Len(K)
       /\ K[hi + 1].err_mag <= K[lo].err_mag
       /\ ReachedByDroppingSmallerEnds(K, lo, hi + 1)

\* the windows of exactly m entries the trimming may leave of the list K
TrimWindows(K, m) ==
    {lo \in 1..(Len(K) - m + 1) :
        ReachedByDroppingSmallerEnds(K, lo, lo + m - 1)}

RECURSIVE LeftOnTies(_, _, _, _)
LeftOnTies(K, lo, hi, m) ==
    IF hi - lo + 1 <= m THEN <<lo, hi>>
    ELSE IF K[lo].err_mag = K[hi].err_mag THEN LeftOnTies(K, lo + 1, hi, m)
    ELSE IF K[lo].err_mag < K[hi].err_mag THEN LeftOnTies(K, lo + 1, hi, m)
    ELSE LeftOnTies(K, lo, hi - 1, m)

\* C28: ties are broken to the left: in the walk a same-signed candidate of
\* equal magnitude does not replace the kept one, so every kept entry is
\* strictly larger than the earlier extrema of its run; in trimming, when
\* both ends are equal, the leftmost entry is the one dropped
C28_TiesToTheLeft ==
    qres.done =>
        LET K == qres.kept
            P == Passing
            w == LeftOnTies(K, 1, Len(K), qorder + 2)
        IN  /\ \A k \in 1..Len(K) :
                 \A j \in P :
                    (j < IxOf(K[k].loc) /\ SameRun(P, j, IxOf(K[k].loc)))
                        => WMag(j) < K[k].err_mag
            /\ qres.alt = SubSeq(K, w[1], w[2])
            /\ (Len(K) > qorder + 2 /\ K[1].err_mag = K[Len(K)].err_mag)
                   => qres.alt[1].loc > K[1].loc

\* a walk that met an equal candidate after the kept one of the same run,
\* followed by a trimming whose two ends were equal
C28_Witness ==
    /\ qres.done
    /\ \E i \in Passing : \E j \in Passing :
         /\ i < j /\ SameRun(Passing, i, j) /\ WMag(i) = WMag(j)
         /\ \E k \in 1..Len(qres.kept) : qres.kept[k].loc = qloc[i]
    /\ Len(qres.kept) > qorder + 2
    /\ qres.kept[1].err_mag = qres.kept[Len(qres.kept)].err_mag

\* ------------------------------------------------ claims: the candidate set
\* the members of the sequence xs
Members(xs) == {xs[i] : i \in 1..Len(xs)}

\* C24: at every Solve step every candidate location lies in [0,A] or [B,1]
\* and its target ordinate is 1 exactly when the location is <= A and 0
\* otherwise; every Select step replaces the candidate set by exactly the
\* selected locations, in order
C24_CandidatesTagged ==
    /\ [](pc = "loop" =>
            /\ Len(y) = Len(x)
            /\ \A i \in 1..Len(x) :
                 /\ (0 <= x[i] /\ x[i] <= A) \/ (B <= x[i] /\ x[i] <= Scale)
                 /\ y[i] = 1 <=> x[i] <= A
                 /\ y[i] = 0 <=> x[i] > A)
    /\ [][pc = "select" =>
            /\ Members(x') \subseteq Members(loc)
            /\ StrictlyIncreasing(x')
            /\ data'.new_x = x']_vars

\* a Select step has replaced the candidate set by another one that holds
\* the edges A and B, and one more Solve step follows
C24_Witness ==
    /\ pc = "loop" /\ trace[Len(trace)] = "Select" /\ it < iterations
    /\ x # data.prev_x
    /\ A \in Members(x) /\ B \in Members(x)

\* C25: the initial candidate points are i*A/(ptsA+1) for i = 1..ptsA and
\* B + j*(1-B)/(ptsB+1) for j = 1..ptsB; all lie strictly inside (0,A) or
\* (B,1) and the sequence is strictly increasing
C25_SeedsInterior ==
    (pc = "loop" /\ trace = <<"Seed">>) =>
        LET nA == Cardinality(InPassband(x, A))
            nB == Len(x) - nA
        IN  /\ Len(x) = order + 2
            /\ \A i \in 1..nA : x[i] * (nA + 1) = i * A
            /\ \A j \in 1..nB : (x[nA + j] - B) * (nB + 1) = j * (Scale - B)
            /\ \A i \in 1..Len(x) :
                 (0 < x[i] /\ x[i] < A) \/ (B < x[i] /\ x[i] < Scale)
            /\ StrictlyIncreasing(x)

\* a seeded call with points in both regions
C25_Witness ==
    /\ pc = "loop" /\ trace = <<"Seed">> /\ order >= MinOrder
    /\ Cardinality(InPassband(x, A)) >= 2
    /\ Len(x) - Cardinality(InPassband(x, A)) >= 2

\* C26: the candidate set at every Solve step is strictly increasing in
\* location, all passband points before all stopband points, so it never
\* holds two equal abscissas
C26_CandidatesIncreasing ==
    pc = "loop" =>
        /\ StrictlyIncreasing(x)
        /\ \A i, j \in 1..Len(x) : (x[i] <= A /\ x[j] >= B) => i < j
        /\ Distinct(x)

\* a selected set with points of both regions goes into a later Solve step
C26_Witness ==
    /\ pc = "loop" /\ trace[Len(trace)] = "Select" /\ it < iterations
    /\ Len(x) >= 3
    /\ \E i, j \in 1..Len(x) : x[i] <= A /\ x[j] >= B

\* C27: on return after at least one iteration the polynomial and the error
\* in data are those of the last Solve step, computed on data['prev_x'] and
\* data['prev_y']; data['new_x'] is the set selected after it, which no
\* Solve step has seen; data holds one round only
C27_LastSolveReturned ==
    (pc = "returned" /\ iterations >= 1) =>
        /\ p.bound
        /\ p.xs = data.prev_x /\ p.ys = data.prev_y
        /\ fn = "remez_fit" => (data.err = e /\ DOMAIN data = {"prev_x", "prev_y", "err", "new_x"})
        /\ fn = "remez_fit2" =>
             (data.Berr = e /\ DOMAIN data = {"prev_x", "prev_y", "Aerr", "Berr", "new_x"})
        /\ data.new_x = x
        /\ trace[Len(trace)] = "Select"
        /\ SolveSteps = iterations

\* a call of two iterations has returned, and the set it selected last is
\* not the one its polynomial was solved on
C27_Witness ==
    /\ pc = "returned" /\ fn = "remez_fit" /\ iterations >= 2
    /\ data.new_x # data.prev_x

\* C29: remez_fit called with order >= 3 and iterations = 0 runs no Solve
\* step and returns no polynomial; the call ends in an error at the return
C29_NoIterationsNoPolynomial ==
    (fn = "remez_fit" /\ order >= MinOrder /\ iterations = 0) =>
        /\ SolveSteps = 0
        /\ ~p.bound
        /\ pc \in {"loop", "raised"}
        /\ pc = "raised" => error = "UnboundLocalError"

\* such a call has ended in the error
C29_Witness ==
    /\ fn = "remez_fit" /\ order >= MinOrder /\ iterations = 0
    /\ pc = "raised" /\ error = "UnboundLocalError"

\* ---------------------------------------------------------- claims: MSE_fit
\* C30 as stated: MSE_fit with order >= 3 builds exactly order + 1 points, at
\* least 2 in each region, with a point at 0, A, B and 1 and the rest evenly
\* spaced between them, and never divides by zero in the spacing
C30_MseEdgePoints ==
    (mres.kind # "none" /\ morder >= MinOrder) =>
        LET xs == mres.x
            nA == Cardinality(InPassband(xs, mA))
            nB == Len(xs) - nA
        IN  /\ mres.kind = "ok"
            /\ Len(xs) = morder + 1
            /\ nA >= 2 /\ nB >= 2
            /\ xs[1] = 0 /\ xs[nA] = mA /\ xs[nA + 1] = mB /\ xs[Len(xs)] = Scale
            /\ \A i \in 2..(nA - 1) : xs[i + 1] - xs[i] = xs[i] - xs[i - 1]
            /\ \A j \in (nA + 2)..(Len(xs) - 1) :
                 xs[j + 1] - xs[j] = xs[j] - xs[j - 1]

====
